---- MODULE Spec2Model ----
(***************************************************************************)
(* Hospital mortuary record system (src/Hospital-Mortuary.py): a Streamlit *)
(* script over one CSV file.  Every widget interaction reruns the script   *)
(* top to bottom: the sidebar (backup, restore/import), then the Add tab,  *)
(* the Browse tab and the Edit tab.  An action of this module is one       *)
(* script run.                                                             *)
(*                                                                         *)
(* Representation of the CSV cells (all are text in the file):             *)
(*   free text, record_id   a sequence of one-character strings            *)
(*   enumerations, dates    a TLA+ string ("" when empty)                  *)
(*   timestamps             a sequence of integers (<<>> when empty)       *)
(* A date or time picker's value is <<>> (None) or <<n>> (the n-th day or  *)
(* time of day).                                                           *)
(***************************************************************************)
EXTENDS Integers, Sequences, FiniteSets, TLC

\* ------------------------------------------------------------ bounds
\* The number of steps (script runs and clock ticks) a behaviour takes.
MaxSteps == 4

\* --------------------------------------------------------- constants
COLUMNS ==
  { "record_id", "body_tag_no", "deceased_name", "age", "sex", "dod_date",
    "tod_time", "cause_of_death", "ward_unit", "brought_by", "admitted_dt",
    "storage_location", "next_of_kin", "next_of_kin_contact", "id_docs_seen",
    "autopsy_required", "autopsy_date", "release_status", "released_dt",
    "released_to", "remarks", "last_updated" }

SEX_OPTIONS == <<"Male", "Female", "Other", "Unknown">>
STATUS_OPTIONS == <<"In Storage", "Released", "Transferred">>
YN_OPTIONS == <<"Yes", "No">>
AUTO_OPTIONS == <<"Yes", "No", "Pending">>

\* record_id[:8], the short id shown in the Edit tab's select box
ShortLen == 8

\* Columns whose cells are written as TLA+ strings / as integer sequences;
\* every other column holds a sequence of characters.
StringColumns ==
  { "sex", "dod_date", "tod_time", "id_docs_seen", "autopsy_required",
    "autopsy_date", "release_status" }

\* The empty cell "" of a column.
Empty(col) == IF col \in StringColumns THEN "" ELSE <<>>

None == <<>>

Range(s) == { s[i] : i \in 1..Len(s) }

\* ----------------------------------------------------------- helpers
Whitespace == { " ", "\t", "\n" }

RECURSIVE LStrip(_, _)
LStrip(s, chars) ==
  IF s # <<>> /\ Head(s) \in chars THEN LStrip(Tail(s), chars) ELSE s

RECURSIVE RStrip(_, _)
RStrip(s, chars) ==
  IF s # <<>> /\ s[Len(s)] \in chars
  THEN RStrip(SubSeq(s, 1, Len(s) - 1), chars)
  ELSE s

\* str.strip() and str.strip(chars)
StripChars(s, chars) == RStrip(LStrip(s, chars), chars)
Strip(s) == StripChars(s, Whitespace)

\* str.startswith
StartsWith(s, p) == Len(p) <= Len(s) /\ SubSeq(s, 1, Len(p)) = p

\* s[:n]
Take(s, n) == SubSeq(s, 1, IF Len(s) < n THEN Len(s) ELSE n)

\* strftime("%Y-%m-%d") of the n-th day, strftime("%H:%M") of the n-th time
DateStr == <<"2024-03-01", "2024-03-02", "2024-03-03", "2024-03-04">>
TimeStr == <<"00:00", "09:30", "17:45">>

to_date_str(d) == IF d = None THEN "" ELSE DateStr[d[1]]
to_time_str(t) == IF t = None THEN "" ELSE TimeStr[t[1]]

\* now_iso(): the wall clock, to the second
now_iso(clock) == <<clock>>

\* combine_date_time on a date picker's and a time picker's value: no date
\* gives ""; otherwise the local timestamp of that day and time of day.
combine_date_time(d, t) == IF d = None THEN <<>> ELSE <<d[1], t[1]>>

\* validate_required without the strip(): only None and "" count as missing.
validate_required_NoStrip(fields) ==
  LET Miss(f) == (~f.is_str /\ f.v = None) \/ (f.is_str /\ f.v = <<>>)
      sel == SelectSeq(fields, Miss)
  IN  [ i \in 1..Len(sel) |-> sel[i].k ]

\* validate_required: fields is the dict as a sequence of entries
\* [k, v, is_str] in insertion order (is_str: isinstance(v, str)); an entry
\* is missing when v is None, or v is a str that is blank after strip().
RECURSIVE validate_required(_)
validate_required(fields) ==
  IF fields = <<>> THEN <<>>
  ELSE LET f == Head(fields)
           rest == validate_required(Tail(fields))
       IN  IF (~f.is_str /\ f.v = None) \/ (f.is_str /\ Strip(f.v) = <<>>)
           THEN <<f.k>> \o rest
           ELSE rest

\* One row read by pd.read_csv and normalised by load_data: a column of
\* COLUMNS the file lacks is added empty, columns outside COLUMNS dropped.
AlignRow(row) ==
  [ col \in COLUMNS |-> IF col \in DOMAIN row THEN row[col] ELSE Empty(col) ]

\* load_data(): the file's rows, aligned to COLUMNS
load_data(file) == [ i \in 1..Len(file) |-> AlignRow(file[i]) ]

\* save_data(df): df[COLUMNS] rewritten as the whole file
save_data(df) == [ i \in 1..Len(df) |-> [ col \in COLUMNS |-> df[i][col] ] ]

\* --------------------------------------------------------------- state
VARIABLES
  store,      \* data/mortuary_records.csv: the rows of the file
  now,        \* the wall clock read by now_iso()
  issued,     \* the ids uuid.uuid4() has returned so far
  uploaded,   \* the sidebar's file uploader: no file, or the file in it
  req,        \* the required-field dict (req, req2) the last script run built
  missing,    \* the required-field labels the last script run reported
  notice,     \* the st.success / st.error message of the last script run
  browse,     \* the Browse tab of the last script run: its filters and df_f
  sess,       \* concurrent sessions: each one's script position and its df
  steps       \* the steps taken so far

vars == <<store, now, issued, uploaded, req, missing, notice, browse, sess, steps>>

\* Every action is one step.
Step ==
  /\ steps < MaxSteps
  /\ steps' = steps + 1

\* ----------------------------------------------------------- inputs
\* uuid.uuid4() as text, cut after the first group: U1 and U2 agree on
\* their first 8 characters, U3 differs from both.
U1 == <<"a", "a", "a", "a", "a", "a", "a", "a", "-", "1">>
U2 == <<"a", "a", "a", "a", "a", "a", "a", "a", "-", "2">>
U3 == <<"b", "a", "a", "a", "a", "a", "a", "a", "-", "1">>
UUIDS == { U1, U2, U3 }

NameInputs == { <<>>, <<" ", "A", " ">> }
TagInputs == { <<"T">> }
LocInputs == { <<"L">> }
DodInputs == { None, <<1>> }

\* str(uuid.uuid4()): a random 122-bit id, taken never to repeat a value
\* it has returned before.
uuid4(used) == UUIDS \ used

\* What the Add tab's widgets can hold when Save Record is clicked.
AddFormSet(names, tags, dods, locs) ==
  [ deceased_name : names, age : { <<"6", "5">> }, sex : { "Unknown" },
    body_tag_no : tags, ward_unit : { <<>> }, dod : dods,
    tod : { <<1>> }, cause : { <<>> }, brought_by : { <<>> },
    storage_location : locs, nok : { <<>> }, nok_contact : { <<>> },
    id_docs : { "No" }, autopsy_required : { "Pending" },
    autopsy_date : { None }, remarks : { <<>> },
    admitted_date : { <<1>> }, admitted_time : { <<2>> } ]

AddForms == AddFormSet(NameInputs, TagInputs, DodInputs, LocInputs)

\* Two browser sessions, each running the script in a thread of its own.
Sessions == { 1, 2 }

\* A session between script runs; one that has loaded the table and holds
\* its df in memory, changed at row `row`, is "loaded", and "saved" once
\* it has written df back.
Idle == [ pc |-> "idle", df |-> <<>>, row |-> 0 ]

\* No filters chosen and nothing shown yet.
NoFilters ==
  [ f_status |-> {}, f_sex |-> {}, f_from |-> None, f_to |-> None,
    q_name |-> <<>>, q_location |-> <<>>, q_cause |-> <<>> ]

NoBrowse == [ filters |-> NoFilters, df_f |-> <<>> ]

\* ------------------------------------------------------------ sidebar
NoUpload == [ present |-> FALSE, parses |-> FALSE, rows |-> <<>> ]

\* The import's "Align columns": every column of COLUMNS the uploaded table
\* lacks is added empty, then df_imp[COLUMNS] drops the others.
AlignImport(rows) == [ i \in 1..Len(rows) |-> AlignRow(rows[i]) ]

\* An import that adds the aligned rows to the stored ones.
Sidebar_Append(file, up) ==
  IF up.present /\ up.parses THEN save_data(file \o AlignImport(up.rows)) ELSE file

\* The sidebar's restore/import, run at the top of every script run: with a
\* file in the uploader that pd.read_csv parses, the aligned table is saved
\* over the store; a file that does not parse raises inside the try block
\* before save_data and leaves the store alone.
Sidebar(file, up) ==
  IF up.present /\ up.parses THEN save_data(AlignImport(up.rows)) ELSE file

\* st.experimental_rerun() after a save: the script runs again from the top,
\* and the sidebar with it, on the file the handler has just written.
Rerun(file, up) == Sidebar(file, up)

\* ------------------------------------------------------------ Add tab
\* req of the Save Record handler
AddRequired(form) ==
  << [ k |-> "Deceased Name", v |-> form.deceased_name, is_str |-> TRUE ],
     [ k |-> "Body Tag Number", v |-> form.body_tag_no, is_str |-> TRUE ],
     [ k |-> "Date of Death", v |-> form.dod, is_str |-> FALSE ],
     [ k |-> "Storage Location", v |-> form.storage_location, is_str |-> TRUE ] >>

\* record of the Save Record handler
NewRecord(form, id, clock) ==
  [ record_id |-> id,
    body_tag_no |-> Strip(form.body_tag_no),
    deceased_name |-> Strip(form.deceased_name),
    age |-> Strip(form.age),
    sex |-> form.sex,
    dod_date |-> to_date_str(form.dod),
    tod_time |-> to_time_str(form.tod),
    cause_of_death |-> Strip(form.cause),
    ward_unit |-> Strip(form.ward_unit),
    brought_by |-> Strip(form.brought_by),
    admitted_dt |-> combine_date_time(form.admitted_date, form.admitted_time),
    storage_location |-> Strip(form.storage_location),
    next_of_kin |-> Strip(form.nok),
    next_of_kin_contact |-> Strip(form.nok_contact),
    id_docs_seen |-> form.id_docs,
    autopsy_required |-> form.autopsy_required,
    autopsy_date |-> IF form.autopsy_date # None THEN to_date_str(form.autopsy_date) ELSE "",
    release_status |-> "In Storage",
    released_dt |-> <<>>,
    released_to |-> <<>>,
    remarks |-> Strip(form.remarks),
    last_updated |-> now_iso(clock) ]

\* pd.concat([df, pd.DataFrame([record])], ignore_index=True)
Concat(df, record) == Append(df, record)

\* A script run with Save Record clicked.
SaveRecord(form) ==
  LET file == Sidebar(store, uploaded)
      errs == validate_required(AddRequired(form))
  IN  /\ Step
      /\ req' = AddRequired(form)
      /\ missing' = errs
      /\ IF errs # <<>>
         THEN /\ store' = file
              /\ notice' = "Please fill required fields"
              /\ UNCHANGED issued
         ELSE /\ \E id \in uuid4(issued) :
                   /\ issued' = issued \cup { id }
                   /\ store' = Rerun(save_data(Concat(load_data(file), NewRecord(form, id, now))),
                                     uploaded)
              /\ notice' = "Record saved"
      /\ UNCHANGED <<now, uploaded, browse, sess>>

\* ----------------------------------------------------------- Edit tab
\* The em-dash of the select box's labels, one character.
EmDash == "EMDASH"
Sep == <<" ", EmDash, " ">>

\* One option of the select box:
\* f"{r.body_tag_no} EMDASH {r.deceased_name} EMDASH {r.release_status} EMDASH ({r.record_id[:8]})"
\* (the status is kept as one token of the label)
OptionLabel(r) ==
  r.body_tag_no \o Sep \o r.deceased_name \o Sep \o <<r.release_status>> \o Sep
    \o <<"(">> \o Take(r.record_id, ShortLen) \o <<")">>

\* id_choice.split(EMDASH)[-1]: what follows the last em-dash
RECURSIVE SplitLast(_)
SplitLast(s) ==
  IF \E i \in 1..Len(s) : s[i] = EmDash
  THEN LET i == CHOOSE j \in 1..Len(s) : s[j] = EmDash
       IN  SplitLast(SubSeq(s, i + 1, Len(s)))
  ELSE s

\* selected_id = id_choice.split(EMDASH)[-1].strip().strip("()")
SelectedId(id_choice) == StripChars(Strip(SplitLast(id_choice)), { "(", ")" })

\* A prefix loop without the break: the last matching row wins.
RowIdx_Last(df, selected_id) ==
  IF \E i \in 1..Len(df) : StartsWith(df[i].record_id, selected_id)
  THEN CHOOSE i \in 1..Len(df) :
         /\ StartsWith(df[i].record_id, selected_id)
         /\ \A j \in (i + 1)..Len(df) : ~StartsWith(df[j].record_id, selected_id)
  ELSE 0

\* The prefix loop: the first row whose record_id starts with selected_id,
\* counted from 1; 0 stands for row_idx = None.
RowIdx(df, selected_id) ==
  IF \E i \in 1..Len(df) : StartsWith(df[i].record_id, selected_id)
  THEN CHOOSE i \in 1..Len(df) :
         /\ StartsWith(df[i].record_id, selected_id)
         /\ \A j \in 1..(i - 1) : ~StartsWith(df[j].record_id, selected_id)
  ELSE 0

\* The row the Edit tab works on when the k-th option is selected.
Target(df, k) == RowIdx(df, SelectedId(OptionLabel(df[k])))

StatusInputs == Range(STATUS_OPTIONS)
ReleasedToInputs == { <<"K", " ">> }
ReleasedDateInputs == { None, <<2>> }

\* What the Edit tab's widgets can hold when a button is clicked.
EditFormSet(names, tags, dods, locs, statuses, tos, dates) ==
  [ deceased_name_e : names, age_e : { <<"6", "5">> }, sex_e : { "Unknown" },
    body_tag_no_e : tags, dod_e : dods, tod_e : { <<1>> },
    cause_e : { <<>> }, ward_unit_e : { <<>> }, brought_by_e : { <<>> },
    storage_location_e2 : locs, nok_e : { <<>> }, nokc_e : { <<>> },
    id_docs_e : { "No" }, autopsy_req_e : { "Pending" },
    autopsy_date_e : { None }, remarks_e : { <<>> },
    status_e : statuses, released_to_e : tos,
    released_date_e : dates, released_time_e : { <<1>> } ]

EditForms ==
  EditFormSet(NameInputs, TagInputs, DodInputs, LocInputs,
              StatusInputs, ReleasedToInputs, ReleasedDateInputs)

\* req2 of the Save Changes handler
EditRequired(form) ==
  << [ k |-> "Deceased Name", v |-> form.deceased_name_e, is_str |-> TRUE ],
     [ k |-> "Body Tag Number", v |-> form.body_tag_no_e, is_str |-> TRUE ],
     [ k |-> "Date of Death", v |-> form.dod_e, is_str |-> FALSE ],
     [ k |-> "Storage Location", v |-> form.storage_location_e2, is_str |-> TRUE ] >>

\* An update that stores the short id shown in the select box.
KeptId_Short(rec) == Take(rec.record_id, ShortLen)

\* "record_id": rec["record_id"]
KeptId(rec) == rec.record_id

\* An update that stamps admitted_dt like last_updated.
KeptAdmitted_Restamped(rec) == rec.last_updated

\* "admitted_dt": rec["admitted_dt"]  (keep original)
KeptAdmitted(rec) == rec.admitted_dt

\* "released_dt": combine_date_time(...) if status_e != "In Storage" else ""
ReleasedDt(form) ==
  IF form.status_e # "In Storage"
  THEN combine_date_time(form.released_date_e, form.released_time_e)
  ELSE <<>>

\* An update that stores released_to whatever the status.
ReleasedTo_Unconditional(form) == Strip(form.released_to_e)

\* "released_to": released_to_e.strip() if status_e != "In Storage" else ""
ReleasedTo(form) ==
  IF form.status_e # "In Storage" THEN Strip(form.released_to_e) ELSE <<>>

\* The row assigned to df.loc[row_idx, :] by the Save Changes handler.
UpdatedRecord(rec, form, clock) ==
  [ record_id |-> KeptId(rec),
    body_tag_no |-> Strip(form.body_tag_no_e),
    deceased_name |-> Strip(form.deceased_name_e),
    age |-> Strip(form.age_e),
    sex |-> form.sex_e,
    dod_date |-> to_date_str(form.dod_e),
    tod_time |-> to_time_str(form.tod_e),
    cause_of_death |-> Strip(form.cause_e),
    ward_unit |-> Strip(form.ward_unit_e),
    brought_by |-> Strip(form.brought_by_e),
    admitted_dt |-> KeptAdmitted(rec),
    storage_location |-> Strip(form.storage_location_e2),
    next_of_kin |-> Strip(form.nok_e),
    next_of_kin_contact |-> Strip(form.nokc_e),
    id_docs_seen |-> form.id_docs_e,
    autopsy_required |-> form.autopsy_req_e,
    autopsy_date |-> IF form.autopsy_date_e # None THEN to_date_str(form.autopsy_date_e) ELSE "",
    release_status |-> form.status_e,
    released_dt |-> ReleasedDt(form),
    released_to |-> ReleasedTo(form),
    remarks |-> Strip(form.remarks_e),
    last_updated |-> now_iso(clock) ]

\* A quick action that also resets released_to.
QuickMark_ClearsReleasedTo(rec, status, c1, c2) ==
  [ rec EXCEPT !["release_status"] = status,
               !["released_dt"] = now_iso(c1),
               !["released_to"] = <<>>,
               !["last_updated"] = now_iso(c2) ]

\* The three assignments of a quick-action handler; now_iso() is read
\* twice, at c1 and then at c2.
QuickMark(rec, status, c1, c2) ==
  [ rec EXCEPT !["release_status"] = status,
               !["released_dt"] = now_iso(c1),
               !["last_updated"] = now_iso(c2) ]

\* The wall clock at a second reading within one handler.
Later(clock) == clock..(clock + 1)

\* A script run with Save Changes clicked, the k-th option selected.
SaveChanges(k, form) ==
  LET file == Sidebar(store, uploaded)
      df == load_data(file)
  IN  /\ Step
      /\ k \in 1..Len(df)
      /\ Target(df, k) # 0
      /\ LET row_idx == Target(df, k)
             errs == validate_required(EditRequired(form))
         IN  /\ req' = EditRequired(form)
             /\ missing' = errs
             /\ store' = IF errs # <<>>
                         THEN file
                         ELSE Rerun(save_data([ df EXCEPT ![row_idx] =
                                                   UpdatedRecord(df[row_idx], form, now) ]),
                                    uploaded)
             /\ notice' = IF errs # <<>> THEN "Please fill required fields" ELSE "Changes saved"
      /\ UNCHANGED <<now, issued, uploaded, browse, sess>>

\* A script run with a quick-action button clicked.
MarkAs(k, status, done) ==
  LET file == Sidebar(store, uploaded)
      df == load_data(file)
  IN  /\ Step
      /\ k \in 1..Len(df)
      /\ Target(df, k) # 0
      /\ \E c2 \in Later(now) :
           /\ store' = Rerun(save_data([ df EXCEPT ![Target(df, k)] =
                                          QuickMark(df[Target(df, k)], status, now, c2) ]),
                             uploaded)
           /\ now' = c2
      /\ req' = <<>>
      /\ missing' = <<>>
      /\ notice' = done
      /\ UNCHANGED <<issued, uploaded, browse, sess>>

\* Mark as Released Now
MarkReleased(k) == MarkAs(k, "Released", "Marked as Released.")

\* A Mark as Transferred Now copied from Mark as Released Now with the
\* status left as it was.
MarkTransferred_AsReleased(k) == MarkAs(k, "Released", "Marked as Transferred.")

\* Mark as Transferred Now
MarkTransferred(k) == MarkAs(k, "Transferred", "Marked as Transferred.")

\* The wall clock advances.
Tick ==
  /\ Step
  /\ now' = now + 1
  /\ UNCHANGED <<store, issued, uploaded, req, missing, notice, browse, sess>>

\* ensure_storage(): the file exists with the header and no rows.
Init ==
  /\ store = <<>>
  /\ now = 0
  /\ issued = {}
  /\ uploaded = NoUpload
  /\ req = <<>>
  /\ missing = <<>>
  /\ notice = ""
  /\ browse = NoBrowse
  /\ sess = [ s \in Sessions |-> Idle ]
  /\ steps = 0

\* The options of the Edit tab's select box, one per row of the loaded table.
Options == 1..Len(load_data(Sidebar(store, uploaded)))

Next ==
  \/ \E form \in AddForms : SaveRecord(form)
  \/ \E k \in Options, form \in EditForms : SaveChanges(k, form)
  \/ \E k \in Options : MarkReleased(k)
  \/ \E k \in Options : MarkTransferred(k)
  \/ Tick

Spec == Init /\ [][Next]_vars

\* ------------------------------------------------- validation inputs
\* Forms in which each of the four required fields is set, unset or blank.
NameInputsV == { <<>>, <<" ">>, <<"A">> }
TagInputsV == { <<" ", "\t">>, <<"T">> }
LocInputsV == { <<>>, <<"L", " ">> }

AddFormsV == AddFormSet(NameInputsV, TagInputsV, DodInputs, LocInputsV)

EditFormsV ==
  EditFormSet(NameInputsV, TagInputsV, DodInputs, LocInputsV,
              { "In Storage", "Released" }, { <<"K">> }, { <<2>> })

NextValidate ==
  \/ \E form \in AddFormsV : SaveRecord(form)
  \/ \E k \in Options, form \in EditFormsV : SaveChanges(k, form)
  \/ Tick

SpecValidate == Init /\ [][NextValidate]_vars

\* ------------------------------------------------- concurrent sessions
\* Each session runs the same handlers; between a handler's load_data() and
\* its save_data(df) the other session's script may run.  A handler is split
\* there: it first loads the table and changes its df in memory, then
\* writes df back.
ConcAddForms == AddFormSet({ <<"A">> }, TagInputs, { <<1>> }, LocInputs)

ConcEditForms ==
  EditFormSet({ <<"A">> }, TagInputs, { <<1>> }, LocInputs,
              { "Released" }, { <<"K">> }, { <<2>> })

\* Save Record up to pd.concat: the loaded table with the new record.
LoadForCreate(s, form) ==
  /\ Step
  /\ sess[s].pc # "loaded"
  /\ validate_required(AddRequired(form)) = <<>>
  /\ LET df == load_data(Sidebar(store, uploaded))
     IN  \E id \in uuid4(issued) :
           /\ issued' = issued \cup { id }
           /\ sess' = [ sess EXCEPT ![s] =
                          [ pc |-> "loaded",
                            df |-> Concat(df, NewRecord(form, id, now)),
                            row |-> Len(df) + 1 ] ]
  /\ UNCHANGED <<store, now, uploaded, req, missing, notice, browse>>

\* Save Changes up to the assignment to df.loc[row_idx, :].
LoadForUpdate(s, k, form) ==
  /\ Step
  /\ sess[s].pc # "loaded"
  /\ validate_required(EditRequired(form)) = <<>>
  /\ LET df == load_data(Sidebar(store, uploaded))
     IN  /\ k \in 1..Len(df)
         /\ Target(df, k) # 0
         /\ sess' = [ sess EXCEPT ![s] =
                        [ pc |-> "loaded",
                          df |-> [ df EXCEPT ![Target(df, k)] = UpdatedRecord(df[Target(df, k)], form, now) ],
                          row |-> Target(df, k) ] ]
  /\ UNCHANGED <<store, now, issued, uploaded, req, missing, notice, browse>>

\* A quick action up to its last assignment to df.
LoadForMark(s, k, status) ==
  /\ Step
  /\ sess[s].pc # "loaded"
  /\ LET df == load_data(Sidebar(store, uploaded))
     IN  /\ k \in 1..Len(df)
         /\ Target(df, k) # 0
         /\ sess' = [ sess EXCEPT ![s] =
                        [ pc |-> "loaded",
                          df |-> [ df EXCEPT ![Target(df, k)] = QuickMark(df[Target(df, k)], status, now, now) ],
                          row |-> Target(df, k) ] ]
  /\ UNCHANGED <<store, now, issued, uploaded, req, missing, notice, browse>>

\* A save that keeps the rows of the file that df does not have.
Written_Merge(file, df) ==
  LET NotInDf(r) == r \notin Range(df)
  IN  save_data(df \o SelectSeq(file, NotInDf))

\* What save_data(df) leaves in the file, given what the file held.
Written(file, df) == save_data(df)

\* save_data(df), then st.success: the session's df replaces the file.
WriteBack(s) ==
  /\ Step
  /\ sess[s].pc = "loaded"
  /\ store' = Written(store, sess[s].df)
  /\ sess' = [ sess EXCEPT ![s].pc = "saved" ]
  /\ UNCHANGED <<now, issued, uploaded, req, missing, notice, browse>>

\* One record is stored when the second session opens the page.
InitConc ==
  /\ \E form \in ConcAddForms : store = save_data(<<NewRecord(form, U3, 0)>>)
  /\ now = 0
  /\ issued = { U3 }
  /\ uploaded = NoUpload
  /\ req = <<>>
  /\ missing = <<>>
  /\ notice = ""
  /\ browse = NoBrowse
  /\ sess = [ s \in Sessions |-> Idle ]
  /\ steps = 0

NextConc ==
  \/ \E s \in Sessions, form \in ConcAddForms : LoadForCreate(s, form)
  \/ \E s \in Sessions, k \in Options, form \in ConcEditForms : LoadForUpdate(s, k, form)
  \/ \E s \in Sessions, k \in Options : LoadForMark(s, k, "Transferred")
  \/ \E s \in Sessions : WriteBack(s)

SpecConc == InitConc /\ [][NextConc]_vars

\* ------------------------------------------------------------- import
\* A record as an earlier version of the program or a spreadsheet wrote it.
V1 == <<"c", "0", "0", "0", "0", "0", "0", "1", "-", "7">>
V2 == <<"c", "0", "0", "0", "0", "0", "0", "2", "-", "7">>

ExportedRow(id, status) ==
  [ NewRecord(CHOOSE form \in ConcAddForms : TRUE, id, 0)
      EXCEPT !["release_status"] = status, !["remarks"] = <<"n">> ]

\* The row cut down to the columns cols.
Restrict(row, cols) == [ col \in cols |-> row[col] ]

\* The row with a column the program does not know.
WithExtra(row) ==
  [ col \in COLUMNS \cup { "extra" } |-> IF col = "extra" THEN <<"x">> ELSE row[col] ]

OldColumns == COLUMNS \ { "remarks", "released_to", "autopsy_date" }

\* What can be put into the uploader: a backup with an extra column, a
\* table from before some columns existed, a header without rows, and a
\* file pd.read_csv rejects (empty, ragged rows, not text).
UploadFiles ==
  { [ present |-> TRUE, parses |-> TRUE,
      rows |-> << WithExtra(ExportedRow(V1, "Released")), WithExtra(ExportedRow(V2, "In Storage")) >> ],
    [ present |-> TRUE, parses |-> TRUE,
      rows |-> << Restrict(ExportedRow(V1, "Transferred"), OldColumns) >> ],
    [ present |-> TRUE, parses |-> TRUE, rows |-> <<>> ],
    [ present |-> TRUE, parses |-> FALSE, rows |-> <<>> ] }

\* A script run started by putting a file into the uploader.
Upload(file) ==
  /\ Step
  /\ uploaded' = file
  /\ store' = Sidebar(store, file)
  /\ notice' = IF file.parses THEN "Import complete" ELSE "Import failed"
  /\ req' = <<>>
  /\ missing' = <<>>
  /\ UNCHANGED <<now, issued, browse, sess>>

\* A script run started by taking the file out of the uploader.
ClearUpload ==
  /\ Step
  /\ uploaded.present
  /\ uploaded' = NoUpload
  /\ notice' = ""
  /\ req' = <<>>
  /\ missing' = <<>>
  /\ UNCHANGED <<store, now, issued, browse, sess>>

NextImport ==
  \/ \E file \in UploadFiles : Upload(file)
  \/ ClearUpload
  \/ \E form \in ConcAddForms : SaveRecord(form)

SpecImport == Init /\ [][NextImport]_vars

\* Saves while a file may still be in the uploader.
NextReimport ==
  \/ \E file \in UploadFiles : Upload(file)
  \/ ClearUpload
  \/ \E form \in ConcAddForms : SaveRecord(form)
  \/ \E k \in Options, form \in ConcEditForms : SaveChanges(k, form)
  \/ \E k \in Options : MarkReleased(k)
  \/ \E k \in Options : MarkTransferred(k)

SpecReimport == Init /\ [][NextReimport]_vars

\* ------------------------------------------------------------- Browse
\* str.lower(), on the letters used here
Lower(ch) ==
  CASE ch = "A" -> "a" [] ch = "B" -> "b" [] ch = "D" -> "d" [] OTHER -> ch

LowerStr(s) == [ i \in 1..Len(s) |-> Lower(s[i]) ]

\* Series.str.contains(q): q is a regular expression searched anywhere in
\* the text; of the regular expressions, literal characters and the
\* wildcard "." are modelled.
Contains(text, q) ==
  \E p \in 1..(Len(text) - Len(q) + 1) :
    \A i \in 1..Len(q) : q[i] = "." \/ text[p + i - 1] = q[i]

\* Dates as strptime("%Y-%m-%d") also reads them: without zero padding.
DateStrUnpadded == <<"2024-3-1", "2024-3-2", "2024-3-3", "2024-3-4">>

\* parse_date(x): the date, or None when strptime raises
parse_date(x) ==
  IF \E d \in 1..Len(DateStr) : x \in { DateStr[d], DateStrUnpadded[d] }
  THEN << CHOOSE d \in 1..Len(DateStr) : x \in { DateStr[d], DateStrUnpadded[d] } >>
  ELSE None

\* if f_status: df_f = df_f[df_f["release_status"].isin(f_status)]
ByStatus(df, f_status) ==
  LET Test(r) == r.release_status \in f_status
  IN  IF f_status # {} THEN SelectSeq(df, Test) ELSE df

\* if f_sex: df_f = df_f[df_f["sex"].isin(f_sex)]
BySex(df, f_sex) ==
  LET Test(r) == r.sex \in f_sex
  IN  IF f_sex # {} THEN SelectSeq(df, Test) ELSE df

\* A from-filter that keeps the rows whose dod_date does not parse.
ByFrom_KeepsUnparsed(df, f_from) ==
  LET Test(r) == parse_date(r.dod_date) = None \/ parse_date(r.dod_date)[1] >= f_from[1]
  IN  IF f_from # None THEN SelectSeq(df, Test) ELSE df

\* if f_from: keep the rows whose dod_date parses to a date >= f_from
ByFrom(df, f_from) ==
  LET Test(r) == parse_date(r.dod_date) # None /\ parse_date(r.dod_date)[1] >= f_from[1]
  IN  IF f_from # None THEN SelectSeq(df, Test) ELSE df

\* if f_to: keep the rows whose dod_date parses to a date <= f_to
ByTo(df, f_to) ==
  LET Test(r) == parse_date(r.dod_date) # None /\ parse_date(r.dod_date)[1] <= f_to[1]
  IN  IF f_to # None THEN SelectSeq(df, Test) ELSE df

\* if q_name.strip(): name, tag or next of kin contains the query
ByName(df, q_name) ==
  LET q == LowerStr(Strip(q_name))
      Test(r) == \/ Contains(LowerStr(r.deceased_name), q)
                 \/ Contains(LowerStr(r.body_tag_no), q)
                 \/ Contains(LowerStr(r.next_of_kin), q)
  IN  IF Strip(q_name) # <<>> THEN SelectSeq(df, Test) ELSE df

\* if q_location.strip(): storage_location contains the query
ByLocation(df, q_location) ==
  LET q == LowerStr(Strip(q_location))
      Test(r) == Contains(LowerStr(r.storage_location), q)
  IN  IF Strip(q_location) # <<>> THEN SelectSeq(df, Test) ELSE df

\* if q_cause.strip(): cause_of_death contains the query
ByCause(df, q_cause) ==
  LET q == LowerStr(Strip(q_cause))
      Test(r) == Contains(LowerStr(r.cause_of_death), q)
  IN  IF Strip(q_cause) # <<>> THEN SelectSeq(df, Test) ELSE df

\* df_f after "Apply filters", in the script's order
ApplyFilters(df, f) ==
  ByCause(ByLocation(ByName(ByTo(ByFrom(BySex(ByStatus(df, f.f_status), f.f_sex),
    f.f_from), f.f_to), f.q_name), f.q_location), f.q_cause)

\* What each filter widget can be set to.
FilterChoices ==
  [ f_status |-> { {}, { "Released" }, { "In Storage", "Transferred" } },
    f_sex |-> { {}, { "Male" }, { "Female", "Unknown" } },
    f_from |-> { None, <<2>> },
    f_to |-> { None, <<2>> },
    q_name |-> { <<>>, <<" ">>, <<" ", "a", ".">> },
    q_location |-> { <<>>, <<"D", "2">> },
    q_cause |-> { <<>>, <<"f">> } ]

\* A script run started by setting one filter widget: the Browse tab loads
\* the table and shows df_f.
SetFilter(widget, value) ==
  /\ browse.filters[widget] # value
  /\ LET f == [ browse.filters EXCEPT ![widget] = value ]
     IN  browse' = [ filters |-> f,
                     df_f |-> ApplyFilters(load_data(Sidebar(store, uploaded)), f) ]
  /\ store' = Sidebar(store, uploaded)
  /\ UNCHANGED <<now, issued, uploaded, req, missing, notice, sess, steps>>

\* Stored rows that differ in what the filters read; dates also unpadded,
\* in another format, and empty, as an imported table can hold them.
BrowseRow(id, status, sex, dod, name, nok, loc, cause) ==
  [ ExportedRow(id, status)
      EXCEPT !["sex"] = sex, !["dod_date"] = dod, !["deceased_name"] = name,
             !["next_of_kin"] = nok, !["storage_location"] = loc,
             !["cause_of_death"] = cause ]

BrowseRows ==
  { BrowseRow(V1, "In Storage", "Male", "2024-03-01", <<"A", "b">>, <<>>, <<"D", "1">>, <<"f">>),
    BrowseRow(V2, "Released", "Female", "2024-3-2", <<"c">>, <<"A", "B">>, <<"D", "2">>, <<>>),
    BrowseRow(U1, "Transferred", "Unknown", "03/03/2024", <<"b">>, <<>>, <<"d", "2">>, <<"F">>),
    BrowseRow(U3, "Released", "Male", "", <<"a", "c">>, <<"B">>, <<>>, <<>>) }

\* The longest table browsed.
MaxRows == 2

BrowseTables ==
  UNION { [ 1..n -> BrowseRows ] : n \in 0..MaxRows }

\* The page has been opened on a stored table, no filter set; the table may
\* have been imported from a file that is still in the uploader.
InitBrowse ==
  /\ store \in BrowseTables
  /\ now = 0
  /\ issued = {}
  /\ uploaded \in { NoUpload, [ present |-> TRUE, parses |-> TRUE, rows |-> store ] }
  /\ req = <<>>
  /\ missing = <<>>
  /\ notice = ""
  /\ browse = [ filters |-> NoFilters, df_f |-> ApplyFilters(load_data(store), NoFilters) ]
  /\ sess = [ s \in Sessions |-> Idle ]
  /\ steps = 0

NextBrowse ==
  \E widget \in DOMAIN FilterChoices :
    \E value \in FilterChoices[widget] : SetFilter(widget, value)

SpecBrowse == InitBrowse /\ [][NextBrowse]_vars

\* ------------------------------------------------------ shared notions
\* The table a script run starting now would load.
Loaded == load_data(Sidebar(store, uploaded))

\* Rows i of the store before and after a step agree outside cols.
SameOutside(i, cols) ==
  \A col \in COLUMNS \ cols : store'[i][col] = store[i][col]

\* A step that keeps every row of the store but row i, and the row count.
OnlyRow(i) ==
  /\ Len(store') = Len(store)
  /\ \A j \in 1..Len(store) : j # i => store'[j] = store[j]

\* The quick-action handlers' messages.
QuickNotices == { "Marked as Released.", "Marked as Transferred." }

\* Some quick action, with the k-th option selected.  Only a quick action
\* leaves one of QuickNotices and a changed store.
QuickAction(k) ==
  /\ notice' \in QuickNotices
  /\ store' # store
  /\ MarkReleased(k) \/ MarkTransferred(k)

\* ------------------------------------------------------------------ C1
\* C1: every stored record whose release_status is "In Storage" has an
\* empty released_dt and an empty released_to, after any sequence of create,
\* update, markReleased and markTransferred from the empty store; an update
\* to "In Storage" empties both whatever release inputs were supplied.
C1_InStorageHasNoRelease ==
  \A i \in 1..Len(store) :
    store[i].release_status = "In Storage"
      => store[i].released_dt = <<>> /\ store[i].released_to = <<>>

\* A record is "In Storage" right after a saved update; every update form
\* carries a non-blank released_to, which the update did not store.
C1_Witness ==
  /\ notice = "Changes saved"
  /\ Len(store) = 1
  /\ store[1].release_status = "In Storage"

\* ------------------------------------------------------------------ C3
\* C3: a quick action changes only release_status, released_dt and
\* last_updated of its target row; every other cell of that row and every
\* other row is as before.
C3_QuickActionFrame ==
  [][ \A k \in Options :
        QuickAction(k)
          => /\ OnlyRow(Target(Loaded, k))
             /\ SameOutside(Target(Loaded, k),
                            { "release_status", "released_dt", "last_updated" }) ]_vars

\* A quick action has just run on a record that carried a released_to and a
\* release date entered by an earlier update.
C3_Witness ==
  /\ notice \in { "Marked as Released.", "Marked as Transferred." }
  /\ \E i \in 1..Len(store) :
       /\ store[i].released_to # <<>>
       /\ Len(store[i].released_dt) = 1

\* ------------------------------------------------------------------ C4
\* C4: no two stored records have the same record_id, and no step changes
\* the record_id of a stored record.
C4_IdsDistinct ==
  \A i, j \in 1..Len(store) : i # j => store[i].record_id # store[j].record_id

C4_IdsKept ==
  \A i \in 1..Len(store) :
    Len(store') >= i /\ store'[i].record_id = store[i].record_id

C4_RecordIdUnique == []C4_IdsDistinct /\ [][C4_IdsKept]_vars

\* Two records are stored and one of them has been updated.
C4_Witness ==
  /\ Len(store) >= 2
  /\ notice = "Changes saved"

\* ------------------------------------------------------------------ C5
\* C5: no step changes the admitted_dt of a stored record: it stays the
\* value stamped by create.
C5_AdmittedKept ==
  [][ \A i \in 1..Len(store) :
        Len(store') >= i /\ store'[i].admitted_dt = store[i].admitted_dt ]_vars

\* A record has been updated to a released status with a release date, and
\* still carries the admission stamp of the Add form.
C5_Witness ==
  /\ notice = "Changes saved"
  /\ \E i \in 1..Len(store), form \in AddForms :
       /\ store[i].released_dt # <<>>
       /\ store[i].admitted_dt = combine_date_time(form.admitted_date, form.admitted_time)
       /\ store[i].admitted_dt # <<>>

\* ------------------------------------------------------------------ C6
\* The status of row i changes in this step.
StatusChanges(i) == store'[i].release_status # store[i].release_status

\* C6 as claimed: a quick action changes a status only from "In Storage".
C6_QuickOnlyFromInStorage ==
  [][ \A k \in Options :
        QuickAction(k)
          => \A i \in 1..Len(store) :
               StatusChanges(i) => store[i].release_status = "In Storage" ]_vars

\* C6 (amended): a created record starts "In Storage"; markReleased moves
\* its target to "Released" and markTransferred to "Transferred" from any
\* status, and changes no other record's status; every other change of a
\* status, in particular every return to "In Storage", is made by a saved
\* update.
C6_StatusMachine ==
  [][ /\ Len(store') >= Len(store)
      /\ \A i \in (Len(store) + 1)..Len(store') :
           store'[i].release_status = "In Storage"
      /\ \A k \in Options :
           QuickAction(k)
             => /\ store'[Target(Loaded, k)].release_status
                     = (IF notice' = "Marked as Released." THEN "Released" ELSE "Transferred")
                /\ \A i \in 1..Len(store) : StatusChanges(i) => i = Target(Loaded, k)
      /\ \A i \in 1..Len(store) :
           StatusChanges(i)
             => \/ notice' = "Changes saved"
                \/ /\ notice' \in QuickNotices
                   /\ store[i].release_status # store'[i].release_status
                   /\ store'[i].release_status # "In Storage" ]_vars

\* A quick action has just moved a record that an earlier step had released
\* (its released_to is set) to "Transferred".
C6_Witness ==
  /\ notice = "Marked as Transferred."
  /\ \E i \in 1..Len(store) :
       /\ store[i].release_status = "Transferred"
       /\ store[i].released_to # <<>>

\* ------------------------------------------------------------------ C2
\* A text that is empty or only whitespace.
Blank(v) == \A i \in 1..Len(v) : v[i] \in Whitespace

\* Entry f of a required-field dict is unset or blank.
Unfilled(f) == IF f.is_str THEN Blank(f.v) ELSE f.v = None

\* The labels of the unfilled entries of dict d, in d's order.
UnfilledLabels(d) ==
  LET at == { i \in 1..Len(d) : Unfilled(d[i]) }
      nth[n \in 0..Len(d)] ==
        IF n = 0 THEN 0 ELSE CHOOSE i \in at : i > nth[n - 1] /\ \A j \in at : j > nth[n - 1] => i <= j
  IN  [ n \in 1..Cardinality(at) |-> d[nth[n]].k ]

\* C2: a create or an update (the runs that build a required-field dict)
\* in which a required field is unset or blank reports the labels of
\* exactly those fields and leaves the store as it was.
C2_InvalidInputAborts ==
  [][ (steps' # steps /\ req' # <<>> /\ \E i \in 1..Len(req') : Unfilled(req'[i]))
        => /\ missing' = UnfilledLabels(req')
           /\ notice' = "Please fill required fields"
           /\ store' = store
           /\ issued' = issued ]_vars

\* A run has just reported three missing labels while a released record is
\* stored.
C2_Witness ==
  /\ missing = <<"Deceased Name", "Body Tag Number", "Storage Location">>
  /\ Len(store) >= 1
  /\ store[1].release_status = "Released"

\* ----------------------------------------------------------------- C10
\* The short id the select box shows for a row.
ShortId(r) == Take(r.record_id, ShortLen)

\* The first row of the store that has the short id of row k.
FirstSharing(k) ==
  CHOOSE i \in 1..Len(store) :
    /\ ShortId(store[i]) = ShortId(store[k])
    /\ \A j \in 1..(i - 1) : ShortId(store[j]) # ShortId(store[k])

\* Row j comes after a row with the same short id.
Shadowed(j) == \E i \in 1..(j - 1) : ShortId(store[i]) = ShortId(store[j])

\* With any option k selected the Edit tab works on the first row that has
\* row k's short id: never on a shadowed row, and on row k itself when no
\* two stored ids share their first 8 characters.
C10_TargetIsFirst ==
  /\ \A k \in 1..Len(store) :
       /\ Target(Loaded, k) = FirstSharing(k)
       /\ Shadowed(k) => Target(Loaded, k) < k /\ (\A k2 \in 1..Len(store) : Target(Loaded, k2) # k)
  /\ (\A i, j \in 1..Len(store) : i # j => ShortId(store[i]) # ShortId(store[j]))
       => \A k \in 1..Len(store) : Target(Loaded, k) = k

\* A quick action with option k selected changes the first row that has
\* row k's short id and nothing else; no step changes a shadowed row, and a
\* shadowed row stays shadowed.
C10_EditHitsFirst ==
  /\ \A k \in Options : QuickAction(k) => OnlyRow(FirstSharing(k))
  /\ \A j \in 1..Len(store) :
       Shadowed(j) => /\ Len(store') >= j
                      /\ store'[j] = store[j]
                      /\ \E i \in 1..(j - 1) : ShortId(store'[i]) = ShortId(store'[j])

\* C10: the target of an update or quick action is the first record in
\* store order whose record_id starts with the selected record's 8-character
\* short id.
C10_PrefixLookup == []C10_TargetIsFirst /\ [][C10_EditHitsFirst]_vars

\* Two stored ids share their first 8 characters; an edit has run and the
\* earlier record is changed while the later one is as created.
C10_Witness ==
  /\ Len(store) >= 2
  /\ ShortId(store[1]) = ShortId(store[2])
  /\ notice \in QuickNotices \cup { "Changes saved" }
  /\ store[1].release_status # "In Storage"
  /\ store[2].release_status = "In Storage"

\* ------------------------------------------------------------------ C7
\* The row session s created or changed in its df.
Change(s) == sess[s].df[sess[s].row]

C7_WitnessUpdate ==
  /\ \A s \in Sessions : sess[s].pc = "saved"
  /\ \E s \in Sessions :
       /\ Change(s).record_id = U3
       /\ Change(s) \notin Range(store)

\* ------------------------------------------------------------------ C8
\* Row r of the store is row u of the uploaded table on the canonical
\* columns: a column u has is copied, a column u lacks is empty, and a
\* column outside COLUMNS is not there.
AlignedFrom(r, u) ==
  /\ DOMAIN r = COLUMNS
  /\ \A col \in COLUMNS : r[col] = (IF col \in DOMAIN u THEN u[col] ELSE Empty(col))

\* C8: the run started by an upload either replaces the store by exactly
\* the uploaded rows, aligned to COLUMNS (the file parses), or leaves the
\* store exactly as it was (it does not parse); every stored row always has
\* exactly the canonical columns.
C8_ImportStep ==
  (uploaded' # uploaded /\ uploaded'.present)
    => IF uploaded'.parses
       THEN /\ Len(store') = Len(uploaded'.rows)
            /\ \A i \in 1..Len(store') : AlignedFrom(store'[i], uploaded'.rows[i])
            /\ notice' = "Import complete"
       ELSE /\ store' = store
            /\ notice' = "Import failed"

C8_ImportAllOrNothing ==
  /\ [](\A i \in 1..Len(store) : DOMAIN store[i] = COLUMNS)
  /\ [][C8_ImportStep]_vars

\* An import has just replaced a store that held created records by a table
\* that lacked the remarks column: none of the created records is left and
\* the column is there, empty.
C8_Witness ==
  /\ notice = "Import complete"
  /\ issued # {}
  /\ Len(store) = 1
  /\ "remarks" \notin DOMAIN uploaded.rows[1]
  /\ store[1].remarks = <<>>
  /\ store[1].record_id \notin issued

\* ------------------------------------------------------------------ C9
\* Record r satisfies every active predicate of the filters f.
Satisfies(r, f) ==
  /\ f.f_status # {} => r.release_status \in f.f_status
  /\ f.f_sex # {} => r.sex \in f.f_sex
  /\ f.f_from # None => parse_date(r.dod_date) # None /\ parse_date(r.dod_date)[1] >= f.f_from[1]
  /\ f.f_to # None => parse_date(r.dod_date) # None /\ parse_date(r.dod_date)[1] <= f.f_to[1]
  /\ ~Blank(f.q_name)
       => \E col \in { "deceased_name", "body_tag_no", "next_of_kin" } :
            Contains(LowerStr(r[col]), LowerStr(Strip(f.q_name)))
  /\ ~Blank(f.q_location) => Contains(LowerStr(r.storage_location), LowerStr(Strip(f.q_location)))
  /\ ~Blank(f.q_cause) => Contains(LowerStr(r.cause_of_death), LowerStr(Strip(f.q_cause)))

\* sub is the subsequence of seq, in order, of the elements at the
\* positions keep.
IsSubsequenceAt(sub, seq, keep) ==
  /\ Len(sub) = Cardinality(keep)
  /\ \A n \in 1..Len(sub) :
       \E i \in keep : sub[n] = seq[i] /\ Cardinality({ j \in keep : j <= i }) = n

\* The shown table is the loaded rows that satisfy the filters, in order, and
\* status-then-sex filters like sex-then-status.
C9_Shown ==
  /\ IsSubsequenceAt(browse.df_f, load_data(store),
                     { i \in 1..Len(store) : Satisfies(load_data(store)[i], browse.filters) })
  /\ \A S \in FilterChoices.f_status, X \in FilterChoices.f_sex :
       BySex(ByStatus(load_data(store), S), X) = ByStatus(BySex(load_data(store), X), S)

Saved ==
  notice' \in { "Record saved", "Changes saved" } \cup QuickNotices /\ steps' # steps

\* After the step every record that was stored is still stored, a created
\* record is in the store, and the row an update or a quick action wrote
\* carries the status it saved (every update form here sets "Released").
SavedChangeStored ==
  /\ \A i \in 1..Len(store) :
       \E j \in 1..Len(store') : store'[j].record_id = store[i].record_id
  /\ notice' = "Record saved"
       => \E j \in 1..Len(store') : store'[j].record_id \in issued' \ issued
  /\ notice' \in { "Changes saved", "Marked as Released." }
       => \E j \in 1..Len(store') : store'[j].release_status = "Released"
  /\ notice' = "Marked as Transferred."
       => \E j \in 1..Len(store') : store'[j].release_status = "Transferred"

\* C11: a record saved by create, and a change saved by update or a quick
\* action, is in the store after the rerun that follows the save, also with
\* a file from an earlier import still in the uploader: the import is not
\* applied again by the rerun.
C11_SavedSurvivesRerun == [][ Saved => SavedChangeStored ]_vars

\* The same on the saves made with no file in the uploader.
C11_SavedSurvivesWithoutUpload ==
  [][ (Saved /\ ~uploaded.present) => SavedChangeStored ]_vars

====
